---------------------------- MODULE Spec2Model ----------------------------
(***************************************************************************)
(* Model of cli/src/ios.rs: the device-to-screen coordinate mapper         *)
(* (sim_to_screen_coords), the accessibility dump parser                   *)
(* (get_accessibility_elements) and the element locator (find_element).    *)
(*                                                                         *)
(* f64 values are modelled as exact rationals n/d extended with the IEEE   *)
(* specials +inf, -inf and NaN; rounding of the 53-bit mantissa is not     *)
(* modelled.  Text is modelled as sequences of one-character strings.      *)
(***************************************************************************)
EXTENDS Integers, Sequences, FiniteSets, TLC

VARIABLES
    op,         \* the operation that has run: "none" before any
    window,     \* outcome of get_simulator_window_geometry()
    shot,       \* outcome of screenshot() + image::load_from_memory()
    sim_pt,     \* the device point <<sim_x, sim_y>> handed to the mapper
    screen_pt,  \* the mapper's Result<(i32, i32)>
    stdout,     \* the text the accessibility script printed
    query,      \* the text find_element looks for
    elements,   \* Vec<UiElement> built by get_accessibility_elements
    found,      \* find_element's Result<Option<(i32, i32)>>
    simulator,  \* the simulator argument: <<>> is None, <<name>> is Some(name)
    listing,    \* outcome of `xcrun simctl list devices -j`
    geom_out,   \* outcome of the window geometry script (its stdout text)
    req,        \* the device points of the last input operation
    trace,      \* external calls made by the last operation, in order
    counts,     \* calls made by all operations so far
    dispatched, \* input events the last operation sent to the host
    outcome     \* Result returned by the last operation

vars == <<op, window, shot, sim_pt, screen_pt, stdout, query, elements, found,
          simulator, listing, geom_out, req, trace, counts, dispatched, outcome>>

mapVars == <<window, shot, sim_pt, screen_pt>>
treeVars == <<stdout, query, elements, found>>
hostVars == <<simulator, listing, geom_out>>
inputVars == <<req, trace, counts, dispatched, outcome>>

-----------------------------------------------------------------------------
(* Bounds of the model                                                     *)

MaxOrigin == 3
MaxWidth == 3
MaxContent == 3
MaxFrame == 3
MaxPoint == 2
MaxLines == 2

-----------------------------------------------------------------------------
(* f64 arithmetic: exact rationals with +inf, -inf, NaN                    *)

Abs(i) == IF i < 0 THEN -i ELSE i
Sgn(i) == IF i < 0 THEN -1 ELSE IF i > 0 THEN 1 ELSE 0

Fin(n, d) == [k |-> "fin", n |-> n, d |-> d]
Inf(s) == [k |-> "inf", n |-> s, d |-> 0]
NaN == [k |-> "nan", n |-> 0, d |-> 0]

\* `i as f64` for an integer i
F(i) == Fin(i, 1)

FNeg(a) == IF a.k = "nan" THEN NaN ELSE [a EXCEPT !.n = -a.n]

FAdd(a, b) ==
    IF a.k = "nan" \/ b.k = "nan" THEN NaN
    ELSE IF a.k = "inf" /\ b.k = "inf" THEN (IF a.n = b.n THEN a ELSE NaN)
    ELSE IF a.k = "inf" THEN a
    ELSE IF b.k = "inf" THEN b
    ELSE Fin(a.n * b.d + b.n * a.d, a.d * b.d)

FSub(a, b) == FAdd(a, FNeg(b))

FMul(a, b) ==
    IF a.k = "nan" \/ b.k = "nan" THEN NaN
    ELSE IF a.k = "inf" \/ b.k = "inf"
         THEN (IF a.n = 0 \/ b.n = 0 THEN NaN ELSE Inf(Sgn(a.n) * Sgn(b.n)))
    ELSE Fin(a.n * b.n, a.d * b.d)

\* a / b; a zero divisor is +0.0 (the divisors here are u32 values and 2.0)
FDiv(a, b) ==
    IF a.k = "nan" \/ b.k = "nan" THEN NaN
    ELSE IF b.k = "inf" THEN (IF a.k = "inf" THEN NaN ELSE Fin(0, 1))
    ELSE IF b.n = 0
         THEN (IF a.n = 0 THEN NaN ELSE Inf(Sgn(a.n)))
    ELSE IF a.k = "inf" THEN Inf(a.n * Sgn(b.n))
    ELSE Fin(a.n * b.d * Sgn(b.n), a.d * Abs(b.n))

\* a <= b on non-NaN values
FLe(a, b) ==
    IF a.k = "inf" THEN (a.n < 0 \/ (b.k = "inf" /\ b.n > 0))
    ELSE IF b.k = "inf" THEN b.n > 0
    ELSE a.n * b.d <= b.n * a.d

\* f64::min: a NaN operand is ignored
FMin(a, b) ==
    IF a.k = "nan" THEN b
    ELSE IF b.k = "nan" THEN a
    ELSE IF FLe(a, b) THEN a ELSE b

\* quotient of n by d (d > 0) truncated toward zero
TruncDiv(n, d) == IF n >= 0 THEN n \div d ELSE -((-n) \div d)

\* `a as i32`: truncation toward zero, saturating, NaN to 0
FToI32(a) ==
    LET max == 2147483647
        min == -2147483647 - 1
    IN  IF a.k = "nan" THEN 0
        ELSE IF a.k = "inf" THEN (IF a.n > 0 THEN max ELSE min)
        ELSE LET t == TruncDiv(a.n, a.d)
             IN  IF t > max THEN max ELSE IF t < min THEN min ELSE t

-----------------------------------------------------------------------------
(* Results                                                                 *)

Ok(v) == [ok |-> TRUE, val |-> v]
Err(e) == [ok |-> FALSE, err |-> e]

\* nothing called, nothing sent
NoCounts == [ops |-> 0, mappings |-> 0, geometry |-> 0, capture |-> 0, cut_short |-> 0]

HostIdle ==
    /\ simulator = <<>>
    /\ listing = Err("pending")
    /\ geom_out = Err("pending")

InputIdle ==
    /\ req = <<>>
    /\ trace = <<>>
    /\ counts = NoCounts
    /\ dispatched = <<>>
    /\ outcome = Err("pending")

-----------------------------------------------------------------------------
(* Coordinate mapper                                                       *)

toolbar_h == 44

\* let scale = scale_x.min(scale_y)
MutScaleXOnly(ww, content_h, sim_w, sim_h) == FDiv(ww, sim_w)

aspect_scale(ww, content_h, sim_w, sim_h) ==
    LET scale_x == FDiv(ww, sim_w)
        scale_y == FDiv(content_h, sim_h)
    IN  FMin(scale_x, scale_y)

\* The arithmetic of sim_to_screen_coords once the window geometry
\* g = <<wx, wy, ww, wh>> and the decoded image size f = <<w, h>> are known.
map_point(sim_x, sim_y, g, f) ==
    LET wx == F(g[1])
        wy == F(g[2])
        ww == F(g[3])
        wh == F(g[4])
        sim_w == F(f[1])
        sim_h == F(f[2])
        content_h == FSub(wh, F(toolbar_h))
        scale == aspect_scale(ww, content_h, sim_w, sim_h)
        content_w == FMul(sim_w, scale)
        actual_content_h == FMul(sim_h, scale)
        offset_x == FDiv(FSub(ww, content_w), F(2))
        offset_y == FAdd(F(toolbar_h),
                         FDiv(FSub(content_h, actual_content_h), F(2)))
        screen_x == FAdd(FAdd(wx, offset_x), FMul(F(sim_x), scale))
        screen_y == FAdd(FAdd(wy, offset_y), FMul(F(sim_y), scale))
    IN  <<FToI32(screen_x), FToI32(screen_y)>>

\* win: Result of get_simulator_window_geometry(); img: Result of
\* screenshot() followed by image::load_from_memory().  The ? operator
\* returns the first error.
sim_to_screen_coords(sim_x, sim_y, win, img) ==
    IF ~win.ok THEN win
    ELSE IF ~img.ok THEN img
    ELSE Ok(map_point(sim_x, sim_y, win.val, img.val))

Origins == {-MaxOrigin, 0, MaxOrigin}
Widths == -1 .. MaxWidth
Heights == {0} \cup ((toolbar_h - 1) .. (toolbar_h + MaxContent))
FrameDims == 0 .. MaxFrame
PointCoords == -1 .. MaxPoint

WindowOutcomes ==
    {Ok(<<x, y, w, h>>) : x \in Origins, y \in Origins, w \in Widths, h \in Heights}
        \cup {Err("Failed to parse window geometry")}

ShotOutcomes ==
    {Ok(<<w, h>>) : w \in FrameDims, h \in FrameDims}
        \cup {Err("simctl screenshot failed"), Err("image decode failed")}

InitMapper ==
    /\ op = "none"
    /\ window \in WindowOutcomes
    /\ shot \in ShotOutcomes
    /\ sim_pt \in PointCoords \X PointCoords
    /\ screen_pt = Err("pending")
    /\ stdout = <<>>
    /\ query = <<>>
    /\ elements = <<>>
    /\ found = Err("pending")
    /\ HostIdle
    /\ InputIdle

MapPoint ==
    /\ op = "none"
    /\ op' = "sim_to_screen_coords"
    /\ screen_pt' = sim_to_screen_coords(sim_pt[1], sim_pt[2], window, shot)
    /\ UNCHANGED <<window, shot, sim_pt, treeVars, hostVars, inputVars>>

NextMapper == MapPoint

SpecMapper == InitMapper /\ [][NextMapper]_vars

-----------------------------------------------------------------------------
(* Text: a string is a sequence of one-character strings                   *)

UpperCase == <<"A", "B", "C", "D", "E", "F", "G", "H", "I", "J", "K", "L", "M",
               "N", "O", "P", "Q", "R", "S", "T", "U", "V", "W", "X", "Y", "Z">>
LowerCase == <<"a", "b", "c", "d", "e", "f", "g", "h", "i", "j", "k", "l", "m",
               "n", "o", "p", "q", "r", "s", "t", "u", "v", "w", "x", "y", "z">>
Digits == <<"0", "1", "2", "3", "4", "5", "6", "7", "8", "9">>
WhiteSpace == {" ", "\t", "\r", "\n"}

IsDigit(c) == \E i \in DOMAIN Digits : Digits[i] = c
DigitVal(c) == (CHOOSE i \in DOMAIN Digits : Digits[i] = c) - 1

\* char::to_lowercase on the ASCII letters
LowerChar(c) ==
    IF \E i \in DOMAIN UpperCase : UpperCase[i] = c
    THEN LowerCase[CHOOSE i \in DOMAIN UpperCase : UpperCase[i] = c]
    ELSE c

\* a comparison that keeps the letter case
MutNoLower(s) == s

\* str::to_lowercase
to_lowercase(s) == [i \in DOMAIN s |-> LowerChar(s[i])]

\* str::contains(&str): pat occurs in s at some offset
contains(s, pat) ==
    \E k \in 0 .. (Len(s) - Len(pat)) : SubSeq(s, k + 1, k + Len(pat)) = pat

\* str::split(char): the pieces between the delimiters, always at least one
split(s, c) ==
    LET at == {i \in DOMAIN s : s[i] = c}
        n == Cardinality(at)
        \* position of the k-th delimiter; 0 before the first, Len(s)+1 after the last
        cut(k) == IF k = 0 THEN 0
                  ELSE IF k = n + 1 THEN Len(s) + 1
                  ELSE CHOOSE i \in at : Cardinality({j \in at : j < i}) = k - 1
    IN  [k \in 1 .. (n + 1) |-> SubSeq(s, cut(k - 1) + 1, cut(k) - 1)]

\* str::lines: split on "\n", a final empty piece dropped, a trailing "\r"
\* of each line stripped
StripCR(l) ==
    IF Len(l) > 0 /\ l[Len(l)] = "\r" THEN SubSeq(l, 1, Len(l) - 1) ELSE l

lines(s) ==
    LET pieces == split(s, "\n")
        kept == IF pieces[Len(pieces)] = <<>>
                THEN SubSeq(pieces, 1, Len(pieces) - 1)
                ELSE pieces
    IN  [i \in DOMAIN kept |-> StripCR(kept[i])]

\* str::trim
RECURSIVE trim(_)
trim(s) ==
    IF s = <<>> THEN s
    ELSE IF s[1] \in WhiteSpace THEN trim(Tail(s))
    ELSE IF s[Len(s)] \in WhiteSpace THEN trim(SubSeq(s, 1, Len(s) - 1))
    ELSE s

\* the value of a non-empty digit string, None (<<>>) when it exceeds limit
RECURSIVE DigitsValue(_, _, _)
DigitsValue(s, acc, limit) ==
    IF s = <<>> THEN <<acc>>
    ELSE IF ~IsDigit(s[1]) THEN <<>>
    ELSE IF acc > (limit - DigitVal(s[1])) \div 10 THEN <<>>
    ELSE DigitsValue(Tail(s), acc * 10 + DigitVal(s[1]), limit)

\* str::parse::<i32>().ok(): an optional sign and at least one digit;
\* <<v>> is Some(v), <<>> is None (i32::MIN itself is not represented)
parse_i32(s) ==
    LET neg == Len(s) > 0 /\ s[1] = "-"
        body == IF Len(s) > 0 /\ s[1] \in {"-", "+"} THEN Tail(s) ELSE s
        mag == IF body = <<>> THEN <<>>
               ELSE DigitsValue(body, 0, 2147483647)
    IN  IF mag = <<>> THEN <<>>
        ELSE IF neg THEN <<-mag[1]>> ELSE mag

\* str::parse::<usize>().ok(): an optional + and at least one digit
parse_usize(s) ==
    LET body == IF Len(s) > 0 /\ s[1] = "+" THEN Tail(s) ELSE s
    IN  IF body = <<>> THEN <<>> ELSE DigitsValue(body, 0, 2147483647)

\* split(c).filter_map(|s| s.trim().parse().ok()).collect::<Vec<i32>>()
RECURSIVE FilterParse(_)
FilterParse(pieces) ==
    IF pieces = <<>> THEN <<>>
    ELSE parse_i32(trim(pieces[1])) \o FilterParse(Tail(pieces))

parse_numbers(s, c) == FilterParse(split(s, c))

-----------------------------------------------------------------------------
(* Accessibility dump parser                                               *)

missing_value == <<"m", "i", "s", "s", "i", "n", "g", " ", "v", "a", "l", "u", "e">>

\* if parts[i] == "missing value" { String::new() } else { parts[i].to_string() }
MutKeepSentinel(field) == field

text_field(field) == IF field = missing_value THEN <<>> ELSE field

\* if parts.len() < 7 { continue; }
enough_fields(parts) == ~(Len(parts) < 7)

\* The body of the loop over stdout.lines(): <<>> when the line is skipped,
\* <<element>> when it is pushed.  parts[0..6] of the code are parts[1..7].
parse_line(line) ==
    LET parts == split(line, "|")
    IN  IF ~enough_fields(parts) THEN <<>>
        ELSE LET idx == parse_usize(parts[1])
                 pos == parse_numbers(parts[6], ",")
                 size == parse_numbers(parts[7], "x")
             IN  IF Len(pos) = 2 /\ Len(size) = 2
                 THEN <<[index |-> IF idx = <<>> THEN 0 ELSE idx[1],
                         role |-> parts[2],
                         title |-> text_field(parts[3]),
                         value |-> text_field(parts[4]),
                         description |-> text_field(parts[5]),
                         x |-> pos[1],
                         y |-> pos[2],
                         width |-> size[1],
                         height |-> size[2]]>>
                 ELSE <<>>

RECURSIVE ParseLines(_)
ParseLines(ls) ==
    IF ls = <<>> THEN <<>> ELSE parse_line(ls[1]) \o ParseLines(Tail(ls))

\* out: Result of running the accessibility script (its stdout text)
get_accessibility_elements(out) ==
    IF ~out.ok THEN out ELSE Ok(ParseLines(lines(out.val)))

-----------------------------------------------------------------------------
(* Element locator                                                         *)

None == [some |-> FALSE]
Some(v) == [some |-> TRUE, val |-> v]

elem_matches(elem, query_lower) ==
    \/ contains(to_lowercase(elem.title), query_lower)
    \/ contains(to_lowercase(elem.value), query_lower)
    \/ contains(to_lowercase(elem.description), query_lower)

\* if matches && elem.width > 0 && elem.height > 0
MutIgnoreArea(elem, query_lower) == elem_matches(elem, query_lower)

elem_hit(elem, query_lower) ==
    elem_matches(elem, query_lower) /\ elem.width > 0 /\ elem.height > 0

\* (cx, cy); i32 `/` truncates toward zero
elem_center(elem) ==
    <<elem.x + (IF elem.width >= 0 THEN elem.width \div 2
                ELSE -((-elem.width) \div 2)),
      elem.y + (IF elem.height >= 0 THEN elem.height \div 2
                ELSE -((-elem.height) \div 2))>>

\* a loop that keeps the last hit instead of returning at the first
RECURSIVE MutFindLast(_, _, _)
MutFindLast(elems, query_lower, i) ==
    IF i > Len(elems) THEN None
    ELSE LET rest == MutFindLast(elems, query_lower, i + 1)
         IN  IF rest.some THEN rest
             ELSE IF elem_hit(elems[i], query_lower) THEN Some(elem_center(elems[i]))
             ELSE None

\* for elem in &elements { ... return Ok(Some((cx, cy))) } ... Ok(None)
RECURSIVE find_loop(_, _, _)
find_loop(elems, query_lower, i) ==
    IF i > Len(elems) THEN None
    ELSE IF elem_hit(elems[i], query_lower) THEN Some(elem_center(elems[i]))
    ELSE find_loop(elems, query_lower, i + 1)

\* q: the query; out: Result of running the accessibility script
find_element(q, out) ==
    LET got == get_accessibility_elements(out)
    IN  IF ~got.ok THEN got
        ELSE Ok(find_loop(got.val, to_lowercase(q), 1))


-----------------------------------------------------------------------------
(* Dump lines and queries the parser and the locator are run on            *)

\* 0|B|Ok|missing value|missing value|1,2|4x6: title matches ok; centre (3, 5)
L_title ==
    <<"0", "|", "B", "|", "O", "k", "|", "m", "i", "s", "s", "i", "n", "g", " ", "v", "a", "l", "u", "e", "|", "m", "i", "s", "s", "i", "n", "g", " ", "v", "a", "l", "u", "e", "|", "1", ",", "2", "|", "4", "x", "6">>

\* 1|T|missing value|ok||-3,7|5x9: value matches ok; centre (-1, 11)
L_value ==
    <<"1", "|", "T", "|", "m", "i", "s", "s", "i", "n", "g", " ", "v", "a", "l", "u", "e", "|", "o", "k", "|", "|", "-", "3", ",", "7", "|", "5", "x", "9">>

\* 2|G|||look|10,20|3x3: description contains ok; centre (11, 21)
L_desc ==
    <<"2", "|", "G", "|", "|", "|", "l", "o", "o", "k", "|", "1", "0", ",", "2", "0", "|", "3", "x", "3">>

\* 3|G|||look|1,2|0x5: matches, zero width
L_zero_w ==
    <<"3", "|", "G", "|", "|", "|", "l", "o", "o", "k", "|", "1", ",", "2", "|", "0", "x", "5">>

\* 4|B|Ok|||1,2|5x0: matches, zero height
L_zero_h ==
    <<"4", "|", "B", "|", "O", "k", "|", "|", "|", "1", ",", "2", "|", "5", "x", "0">>

\* 5|B|Ok|||1,2|-3x5: matches, negative width
L_neg_w ==
    <<"5", "|", "B", "|", "O", "k", "|", "|", "|", "1", ",", "2", "|", "-", "3", "x", "5">>

\* 6|B|no|||8,9|4x6: no field contains ok
L_other ==
    <<"6", "|", "B", "|", "n", "o", "|", "|", "|", "8", ",", "9", "|", "4", "x", "6">>

\* 7|W|missing value|missing value|missing value|0,0|2x2: all three text fields absent
L_absent ==
    <<"7", "|", "W", "|", "m", "i", "s", "s", "i", "n", "g", " ", "v", "a", "l", "u", "e", "|", "m", "i", "s", "s", "i", "n", "g", " ", "v", "a", "l", "u", "e", "|", "m", "i", "s", "s", "i", "n", "g", " ", "v", "a", "l", "u", "e", "|", "0", ",", "0", "|", "2", "x", "2">>

\* x|S|missing values|||1,2|4x6: a title that only starts with the sentinel; non-numeric index
L_near ==
    <<"x", "|", "S", "|", "m", "i", "s", "s", "i", "n", "g", " ", "v", "a", "l", "u", "e", "s", "|", "|", "|", "1", ",", "2", "|", "4", "x", "6">>

\* 9|B|Ok||| 1, 2|4 x6\r: blanks around the numbers, trailing carriage return
L_spaces ==
    <<"9", "|", "B", "|", "O", "k", "|", "|", "|", " ", "1", ",", " ", "2", "|", "4", " ", "x", "6", "\r">>

\* 0|B|Ok|||1,2: 6 fields
L_six ==
    <<"0", "|", "B", "|", "O", "k", "|", "|", "|", "1", ",", "2">>

\* 0|B|Ok|||1,2|4x6|z: 8 fields
L_eight ==
    <<"0", "|", "B", "|", "O", "k", "|", "|", "|", "1", ",", "2", "|", "4", "x", "6", "|", "z">>

\* 0|B|Ok|||1,a,2|4x6: position with 3 components, 2 of them numeric
L_pos_mix ==
    <<"0", "|", "B", "|", "O", "k", "|", "|", "|", "1", ",", "a", ",", "2", "|", "4", "x", "6">>

\* 0|B|Ok|||a,2|4x6: position with a non-numeric component
L_pos_bad ==
    <<"0", "|", "B", "|", "O", "k", "|", "|", "|", "a", ",", "2", "|", "4", "x", "6">>

\* 0|B|Ok|||1|4x6: position with 1 component
L_pos_one ==
    <<"0", "|", "B", "|", "O", "k", "|", "|", "|", "1", "|", "4", "x", "6">>

\* 0|B|Ok|||1,2,3|4x6: position with 3 numeric components
L_pos_3 ==
    <<"0", "|", "B", "|", "O", "k", "|", "|", "|", "1", ",", "2", ",", "3", "|", "4", "x", "6">>

\* 0|B|Ok|||1,2|4x6x: size with 3 components, the last empty
L_size_mix ==
    <<"0", "|", "B", "|", "O", "k", "|", "|", "|", "1", ",", "2", "|", "4", "x", "6", "x">>

\* 0|B|Ok|||1,2|axb: size with no numeric component
L_size_bad ==
    <<"0", "|", "B", "|", "O", "k", "|", "|", "|", "1", ",", "2", "|", "a", "x", "b">>

\* (empty): an empty line
L_empty ==
    <<>>

DumpLines ==
    {L_title,
     L_value,
     L_desc,
     L_zero_w,
     L_zero_h,
     L_neg_w,
     L_other,
     L_absent,
     L_near,
     L_spaces,
     L_six,
     L_eight,
     L_pos_mix,
     L_pos_bad,
     L_pos_one,
     L_pos_3,
     L_size_mix,
     L_size_bad,
     L_empty}

Queries == {<<>>, <<"o", "k">>, <<"O", "K">>, <<"z", "z">>}

\* the script's output: each line followed by a linefeed
RECURSIVE JoinLines(_)
JoinLines(ls) ==
    IF ls = <<>> THEN <<>> ELSE ls[1] \o <<"\n">> \o JoinLines(Tail(ls))

LineSeqs == UNION {[1 .. n -> DumpLines] : n \in 0 .. MaxLines}

ScriptOutcomes ==
    {Ok(JoinLines(ls)) : ls \in LineSeqs}
        \cup {Err("Failed to get accessibility elements")}

InitTree ==
    /\ op = "none"
    /\ window = Err("pending")
    /\ shot = Err("pending")
    /\ sim_pt = <<0, 0>>
    /\ screen_pt = Err("pending")
    /\ stdout \in ScriptOutcomes
    /\ query \in Queries
    /\ elements = <<>>
    /\ found = Err("pending")
    /\ HostIdle
    /\ InputIdle

\* ui_dump: scrape and print the elements
UiDump ==
    /\ op = "none"
    /\ op' = "ui_dump"
    /\ LET got == get_accessibility_elements(stdout)
       IN  elements' = IF got.ok THEN got.val ELSE <<>>
    /\ UNCHANGED <<stdout, query, found, mapVars, hostVars, inputVars>>

\* find_element: scrape, then search
FindElement ==
    /\ op = "none"
    /\ op' = "find_element"
    /\ LET got == get_accessibility_elements(stdout)
       IN  elements' = IF got.ok THEN got.val ELSE <<>>
    /\ found' = find_element(query, stdout)
    /\ UNCHANGED <<stdout, query, mapVars, hostVars, inputVars>>

NextTree == UiDump \/ FindElement

SpecTree == InitTree /\ [][NextTree]_vars


-----------------------------------------------------------------------------
(* Device resolution                                                       *)

MaxDevices == 2

\* one external call and what it returned
Call(stage, out) == [stage |-> stage, out |-> out]

RECURSIVE Flatten(_)
Flatten(ss) == IF ss = <<>> THEN <<>> ELSE ss[1] \o Flatten(Tail(ss))

\* if device["name"].as_str() == Some(name)
MutAnyName(device, name) == TRUE

device_named(device, name) == device.name = <<name>>

\* json: the parsed listing; json.object tells whether json["devices"] is an
\* object, json.devices holds the arrays of devices of its runtimes, in the
\* order the map is iterated.  A device is [name, udid], each <<>> when
\* absent or not a string.
first_udid(json, name) ==
    IF ~json.object THEN <<>>
    ELSE LET devs == Flatten(json.devices)
             hits == {i \in DOMAIN devs :
                         device_named(devs[i], name) /\ devs[i].udid # <<>>}
         IN  IF hits = {} THEN <<>>
             ELSE devs[CHOOSE i \in hits : \A j \in hits : i <= j].udid

\* bail!("Simulator '{}' not found", name)
NotFound(name) == [ok |-> FALSE, err |-> "Simulator not found", name |-> name]

\* sim: Option<&str>; list: Result of running and parsing
\* `xcrun simctl list devices -j`, consulted only when a name is given
get_simulator_udid(sim, list) ==
    IF sim = <<>> THEN Ok("booted")
    ELSE IF ~list.ok THEN list
    ELSE LET udid == first_udid(list.val, sim[1])
         IN  IF udid # <<>> THEN Ok(udid[1])
             ELSE NotFound(sim[1])

\* the calls get_simulator_udid makes
udid_calls(sim, list) ==
    IF sim = <<>> THEN <<>> ELSE <<Call("list devices", list)>>

Devices ==
    {[name |-> <<"A">>, udid |-> <<"u1">>],
     [name |-> <<"A">>, udid |-> <<"u5">>],
     [name |-> <<"A">>, udid |-> <<>>],
     [name |-> <<"B">>, udid |-> <<"u2">>],
     [name |-> <<"C">>, udid |-> <<"u3">>],
     [name |-> <<>>, udid |-> <<"u4">>]}

DeviceSeqs == UNION {[1 .. n -> Devices] : n \in 0 .. MaxDevices}

\* the devices of a listing spread over two runtimes
ListingOutcomes ==
    {Ok([object |-> TRUE,
         devices |-> <<SubSeq(p[1], 1, p[2]), SubSeq(p[1], p[2] + 1, Len(p[1]))>>]) :
        p \in {q \in DeviceSeqs \X (0 .. MaxDevices) : q[2] <= Len(q[1])}}
        \cup {Ok([object |-> FALSE, devices |-> <<>>]),
              Err("Failed to list simulators"),
              Err("invalid JSON")}

Simulators == {<<>>, <<"A">>, <<"B">>}

InitUdid ==
    /\ op = "none"
    /\ window = Err("pending")
    /\ shot = Err("pending")
    /\ sim_pt = <<0, 0>>
    /\ screen_pt = Err("pending")
    /\ stdout = Err("pending")
    /\ query = <<>>
    /\ elements = <<>>
    /\ found = Err("pending")
    /\ simulator \in Simulators
    /\ listing \in ListingOutcomes
    /\ geom_out = Err("pending")
    /\ InputIdle

ResolveUdid ==
    /\ op = "none"
    /\ op' = "get_simulator_udid"
    /\ outcome' = get_simulator_udid(simulator, listing)
    /\ trace' = udid_calls(simulator, listing)
    /\ UNCHANGED <<mapVars, treeVars, hostVars, req, counts, dispatched>>

NextUdid == ResolveUdid

SpecUdid == InitUdid /\ [][NextUdid]_vars

-----------------------------------------------------------------------------
(* Window geometry resolver                                                *)

MaxGeomFields == 5

RECURSIVE Pow10(_)
Pow10(k) == IF k = 0 THEN 1 ELSE 10 * Pow10(k - 1)

AllDigits(s) == \A i \in DOMAIN s : IsDigit(s[i])

\* str::parse::<f64>().ok(): an optional sign, then inf, infinity or nan in
\* any letter case, or digits with an optional fraction (one of the two
\* digit runs may be empty); exponents are not modelled.  <<v>> is Some(v).
parse_f64(s) ==
    LET neg == Len(s) > 0 /\ s[1] = "-"
        body == IF Len(s) > 0 /\ s[1] \in {"-", "+"} THEN Tail(s) ELSE s
        word == to_lowercase(body)
        dots == {i \in DOMAIN body : body[i] = "."}
        dot == IF dots = {} THEN Len(body) + 1 ELSE CHOOSE i \in dots : TRUE
        int == SubSeq(body, 1, dot - 1)
        frac == SubSeq(body, dot + 1, Len(body))
        mag == DigitsValue(int \o frac, 0, 2147483647)
    IN  IF word \in {<<"i", "n", "f">>, <<"i", "n", "f", "i", "n", "i", "t", "y">>}
        THEN <<Inf(IF neg THEN -1 ELSE 1)>>
        ELSE IF word = <<"n", "a", "n">> THEN <<NaN>>
        ELSE IF Cardinality(dots) > 1 \/ int \o frac = <<>>
                \/ ~AllDigits(int \o frac) \/ mag = <<>>
        THEN <<>>
        ELSE <<Fin(IF neg THEN -mag[1] ELSE mag[1], Pow10(Len(frac)))>>

\* text.split(',').filter_map(|s| s.trim().parse().ok()).collect::<Vec<f64>>()
RECURSIVE filter_parse_f64(_)
filter_parse_f64(pieces) ==
    IF pieces = <<>> THEN <<>>
    ELSE parse_f64(trim(pieces[1])) \o filter_parse_f64(Tail(pieces))

\* out: Result of running the geometry script (its stdout text)
get_simulator_window_geometry(out) ==
    IF ~out.ok THEN out
    ELSE LET text == trim(out.val)
             parts == filter_parse_f64(split(text, ","))
         IN  IF Len(parts) # 4 THEN Err("Failed to parse window geometry")
             ELSE Ok(<<parts[1], parts[2], parts[3], parts[4]>>)

GeomFields ==
    {<<"7">>, <<"-", "2">>, <<" ", "4">>, <<"1", ".", "5">>, <<"a">>, <<>>}

RECURSIVE JoinFields(_)
JoinFields(fs) ==
    IF Len(fs) = 1 THEN fs[1] ELSE fs[1] \o <<",">> \o JoinFields(Tail(fs))

\* the script's output: a comma-joined record and a linefeed, or nothing
\* but the linefeed when the window is not found
GeomOutcomes ==
    {Ok(JoinFields(fs) \o <<"\n">>) :
        fs \in UNION {[1 .. n -> GeomFields] : n \in 1 .. MaxGeomFields}}
        \cup {Err("Failed to get Simulator window geometry")}

InitGeometry ==
    /\ op = "none"
    /\ window = Err("pending")
    /\ shot = Err("pending")
    /\ sim_pt = <<0, 0>>
    /\ screen_pt = Err("pending")
    /\ stdout = Err("pending")
    /\ query = <<>>
    /\ elements = <<>>
    /\ found = Err("pending")
    /\ simulator = <<>>
    /\ listing = Err("pending")
    /\ geom_out \in GeomOutcomes
    /\ InputIdle

ResolveGeometry ==
    /\ op = "none"
    /\ op' = "get_simulator_window_geometry"
    /\ outcome' = get_simulator_window_geometry(geom_out)
    /\ trace' = <<Call("geometry", geom_out)>>
    /\ UNCHANGED <<mapVars, treeVars, hostVars, req, counts, dispatched>>

NextGeometry == ResolveGeometry

SpecGeometry == InitGeometry /\ [][NextGeometry]_vars

-----------------------------------------------------------------------------
(* Input operations: long_press, tap, swipe, tap_element                   *)

MaxOps == 2

\* what an operation did: its Result, the calls it made, the events it sent
Run(res, calls, events) == [res |-> res, trace |-> calls, events |-> events]

\* a click at pt; a drag from one point to another
Click(pt) == [kind |-> "click", from |-> pt, to |-> pt]
Drag(p1, p2) == [kind |-> "drag", from |-> p1, to |-> p2]

\* image::load_from_memory(&data)?: bytes.png tells whether the bytes decode
load_from_memory(bytes) ==
    IF bytes.png THEN Ok(<<bytes.w, bytes.h>>) ELSE Err("image decode failed")

\* screenshot once the device is resolved to u: cap is the outcome of
\* `simctl io <udid> screenshot` and of reading the file it wrote
screenshot_as(u, cap) ==
    IF ~u.ok THEN Run(u, <<Call("udid", u)>>, <<>>)
    ELSE Run(cap, <<Call("udid", u), Call("capture", cap)>>, <<>>)

\* screenshot(simulator): e.list is the outcome of the device listing
screenshot(sim, e) == screenshot_as(get_simulator_udid(sim, e.list), e.cap)

\* sim_to_screen_coords from the decode on: g the geometry, data the run of
\* screenshot, img the Result of decoding its bytes
map_decoded(sim_x, sim_y, g, data, img) ==
    Run(sim_to_screen_coords(sim_x, sim_y, g, img),
        <<Call("mapping", Ok(<<sim_x, sim_y>>)), Call("geometry", g)>>
            \o data.trace \o <<Call("decode", img)>>,
        <<>>)

\* sim_to_screen_coords with the calls it makes: g is the outcome of
\* get_simulator_window_geometry(), data the run of screenshot(simulator),
\* which is made only when g is Ok
map_with(sim_x, sim_y, g, data) ==
    IF ~g.ok
    THEN Run(g, <<Call("mapping", Ok(<<sim_x, sim_y>>)), Call("geometry", g)>>, <<>>)
    ELSE IF ~data.res.ok
         THEN Run(data.res,
                  <<Call("mapping", Ok(<<sim_x, sim_y>>)), Call("geometry", g)>>
                      \o data.trace,
                  <<>>)
         ELSE map_decoded(sim_x, sim_y, g, data, load_from_memory(data.res.val))

\* one call of sim_to_screen_coords(sim_x, sim_y, simulator)
map_run(sim_x, sim_y, sim, e) == map_with(sim_x, sim_y, e.geom, screenshot(sim, e))

\* a long press that clicks although the mapping failed
MutLongPressAnyway(u, m, click) ==
    Run(Ok(<<>>), <<Call("udid", u)>> \o m.trace,
        <<Click(IF m.res.ok THEN m.res.val ELSE <<0, 0>>)>>)

\* long_press once the device is resolved to u: m is the run of the
\* mapping, made only when u is Ok; click the outcome of spawning osascript,
\* which the code ignores
long_press_with(u, m, click) ==
    IF ~u.ok THEN Run(u, <<Call("udid", u)>>, <<>>)
    ELSE IF ~m.res.ok THEN Run(m.res, <<Call("udid", u)>> \o m.trace, <<>>)
    ELSE Run(Ok(<<>>),
             <<Call("udid", u)>> \o m.trace \o <<Call("dispatch", click)>>,
             IF click.ok THEN <<Click(m.res.val)>> ELSE <<>>)

\* long_press(x, y, duration, simulator)
long_press(x, y, sim, e) ==
    long_press_with(get_simulator_udid(sim, e.list0), map_run(x, y, sim, e.m), e.click)

\* tap once the device is resolved to u
tap_with(u, m, click) ==
    IF ~u.ok THEN Run(u, <<Call("udid", u)>>, <<>>)
    ELSE IF ~m.res.ok THEN Run(m.res, <<Call("udid", u)>> \o m.trace, <<>>)
    ELSE IF ~click.ok
         THEN Run(Err("Failed to tap via AppleScript"),
                  <<Call("udid", u)>> \o m.trace \o <<Call("dispatch", click)>>,
                  <<>>)
         ELSE Run(Ok(<<>>),
                  <<Call("udid", u)>> \o m.trace \o <<Call("dispatch", click)>>,
                  <<Click(m.res.val)>>)

\* tap(x, y, simulator)
tap(x, y, sim, e) ==
    tap_with(get_simulator_udid(sim, e.list0), map_run(x, y, sim, e.m), e.click)

\* what swipe sends once both points are mapped: cliclick tells whether
\* `which cliclick` succeeds.  The outcomes of the dispatching commands are
\* ignored by the code and not modelled.
swipe_events(from, to, cliclick) ==
    IF cliclick THEN <<Drag(from, to)>> ELSE <<Click(from), Click(to)>>

\* a swipe that maps its second point with the geometry and the frame
\* obtained for the first
MutSwipeReuse(u, m1, m2, p2, e) ==
    IF ~u.ok THEN Run(u, <<Call("udid", u)>>, <<>>)
    ELSE IF ~m1.res.ok THEN Run(m1.res, <<Call("udid", u)>> \o m1.trace, <<>>)
    ELSE Run(Ok(<<>>),
             <<Call("udid", u)>> \o m1.trace \o
                 <<Call("mapping", Ok(p2)),
                   Call("which cliclick", Ok(e.cliclick)),
                   Call("dispatch", Ok(<<>>))>>,
             swipe_events(m1.res.val,
                          map_point(p2[1], p2[2], e.m1.geom.val,
                                    load_from_memory(e.m1.cap.val).val),
                          e.cliclick))

\* swipe once the device is resolved to u: m1 and m2 are the runs of the two
\* mappings, m1 made only when u is Ok, m2 only when m1 succeeded
swipe_with(u, m1, m2, p2, e) ==
    IF ~u.ok THEN Run(u, <<Call("udid", u)>>, <<>>)
    ELSE IF ~m1.res.ok THEN Run(m1.res, <<Call("udid", u)>> \o m1.trace, <<>>)
    ELSE IF ~m2.res.ok
         THEN Run(m2.res, <<Call("udid", u)>> \o m1.trace \o m2.trace, <<>>)
         ELSE Run(Ok(<<>>),
                  <<Call("udid", u)>> \o m1.trace \o m2.trace \o
                      <<Call("which cliclick", Ok(e.cliclick)),
                        Call("dispatch", Ok(<<>>))>>,
                  swipe_events(m1.res.val, m2.res.val, e.cliclick))

\* swipe(x1, y1, x2, y2, duration, simulator)
swipe(p1, p2, sim, e) ==
    swipe_with(get_simulator_udid(sim, e.list0),
               map_run(p1[1], p1[2], sim, e.m1),
               map_run(p2[1], p2[2], sim, e.m2),
               p2, e)

\* bail!("Element '{}' not found", query)
ElementNotFound(q) == [ok |-> FALSE, err |-> "Element not found", query |-> q]

\* the mapping of the point p under a fixed window and frame
MappedAsDevicePoint(p) ==
    map_run(p[1], p[2], <<>>,
            [geom |-> Ok(<<3, -3, 4, toolbar_h + 4>>),
             list |-> Ok([object |-> TRUE, devices |-> <<>>]),
             cap |-> Ok([png |-> TRUE, w |-> 2, h |-> 2])])

\* a tap_element that maps the point found as if it were a device point
MutTapElementMapped(q, f, out) ==
    IF ~f.ok THEN Run(f, <<Call("scrape", out)>>, <<>>)
    ELSE IF f.val.some
         THEN Run(Ok(<<>>),
                  <<Call("scrape", out)>> \o MappedAsDevicePoint(f.val.val).trace
                      \o <<Call("dispatch", Ok(<<>>))>>,
                  <<Click(MappedAsDevicePoint(f.val.val).res.val)>>)
         ELSE Run(ElementNotFound(q), <<Call("scrape", out)>>, <<>>)

\* tap_element once find_element returned f; out is the outcome of the
\* accessibility script
tap_element_with(q, f, out) ==
    IF ~f.ok THEN Run(f, <<Call("scrape", out)>>, <<>>)
    ELSE IF f.val.some
         THEN Run(Ok(<<>>),
                  <<Call("scrape", out), Call("dispatch", Ok(<<>>))>>,
                  <<Click(f.val.val)>>)
         ELSE Run(ElementNotFound(q), <<Call("scrape", out)>>, <<>>)

\* tap_element(query, simulator)
tap_element(q, sim, out) == tap_element_with(q, find_element(q, out), out)

\* outcomes the environment can give to the calls of an input operation
InputWindows ==
    {Err("Failed to parse window geometry"),
     Ok(<<0, 0, 2, toolbar_h + 2>>),
     Ok(<<3, -3, 4, toolbar_h + 4>>)}

InputListings ==
    {Ok([object |-> TRUE, devices |-> <<<<[name |-> <<"A">>, udid |-> <<"u1">>]>>>>]),
     Ok([object |-> TRUE, devices |-> <<>>])}

Captures ==
    {Err("simctl screenshot failed"),
     Ok([png |-> FALSE, w |-> 0, h |-> 0]),
     Ok([png |-> TRUE, w |-> 1, h |-> 2]),
     Ok([png |-> TRUE, w |-> 2, h |-> 2])}

Spawns == {Ok(<<>>), Err("spawn failed")}

InputSimulators == {<<>>, <<"A">>}

InputPoints == {<<1, 2>>}

SwipePaths == {<<<<0, 0>>, <<1, 2>>>>}

\* the outcome given to a call that is never made
NoListing == Ok([object |-> TRUE, devices |-> <<>>])
NoMapEnv == [geom |-> Err("Failed to parse window geometry"),
             list |-> NoListing,
             cap |-> Err("simctl screenshot failed")]

\* environments of one mapping: the outcome of a call that is not reached
\* is fixed, so that each behaviour of the mapping is drawn once
MapEnvs(sim) ==
    {e \in [geom : InputWindows, list : InputListings, cap : Captures] :
        /\ (sim = <<>> \/ ~e.geom.ok) => e.list = NoListing
        /\ (~e.geom.ok \/ ~get_simulator_udid(sim, e.list).ok) => e.cap = NoMapEnv.cap}

ClickEnvs(sim) ==
    {e \in [list0 : InputListings, m : MapEnvs(sim), click : Spawns] :
        /\ sim = <<>> => e.list0 = NoListing
        /\ ~get_simulator_udid(sim, e.list0).ok => e.m = NoMapEnv
        /\ ~map_run(0, 0, sim, e.m).res.ok => e.click = Ok(<<>>)}

SwipeEnvs(sim) ==
    {e \in [list0 : InputListings, m1 : MapEnvs(sim), m2 : MapEnvs(sim),
            cliclick : BOOLEAN] :
        /\ sim = <<>> => e.list0 = NoListing
        /\ ~get_simulator_udid(sim, e.list0).ok => e.m1 = NoMapEnv
        /\ ~map_run(0, 0, sim, e.m1).res.ok => e.m2 = NoMapEnv
        /\ ~map_run(0, 0, sim, e.m2).res.ok => e.cliclick}

InputQueries == {<<"o", "k">>, <<"z", "z">>}

ElementDumps ==
    {Err("Failed to get accessibility elements"),
     Ok(JoinLines(<<L_title>>)),
     Ok(JoinLines(<<L_zero_w, L_value>>)),
     Ok(JoinLines(<<L_other>>))}

\* the number of calls of a stage in a trace
Calls(calls, stage) == Cardinality({i \in DOMAIN calls : calls[i].stage = stage})

\* the mappings of a trace that ended before their frame capture
CutShort(calls) ==
    Cardinality({i \in DOMAIN calls :
        /\ calls[i].stage = "mapping"
        /\ ~\E j \in DOMAIN calls :
              /\ j > i
              /\ calls[j].stage = "capture"
              /\ \A k \in (i + 1) .. j : calls[k].stage # "mapping"})

Tally(c, calls) ==
    [ops |-> c.ops + 1,
     mappings |-> c.mappings + Calls(calls, "mapping"),
     geometry |-> c.geometry + Calls(calls, "geometry"),
     capture |-> c.capture + Calls(calls, "capture"),
     cut_short |-> c.cut_short + CutShort(calls)]

InitInput ==
    /\ op = "none"
    /\ window = Err("pending")
    /\ shot = Err("pending")
    /\ sim_pt = <<0, 0>>
    /\ screen_pt = Err("pending")
    /\ stdout = Err("pending")
    /\ query = <<>>
    /\ elements = <<>>
    /\ found = Err("pending")
    /\ HostIdle
    /\ InputIdle

\* an operation returns: its request, calls, events and Result are recorded
Return(name, sim, points, r) ==
    /\ op' = name
    /\ simulator' = sim
    /\ req' = points
    /\ trace' = r.trace
    /\ dispatched' = r.events
    /\ outcome' = r.res
    /\ counts' = Tally(counts, r.trace)
    /\ UNCHANGED <<mapVars, listing, geom_out>>

\* the requests an operation can receive, each with an environment
ClickRequests ==
    UNION {{[sim |-> sim, p |-> p, e |-> e] : p \in InputPoints, e \in ClickEnvs(sim)} :
              sim \in InputSimulators}

SwipeRequests ==
    UNION {{[sim |-> sim, p1 |-> pp[1], p2 |-> pp[2], e |-> e] :
               pp \in SwipePaths,
               e \in SwipeEnvs(sim)} :
              sim \in InputSimulators}

ElementRequests ==
    {[sim |-> sim, q |-> q, out |-> out] :
        sim \in InputSimulators, q \in InputQueries, out \in ElementDumps}

\* what each operation does on each of its requests
LongPressRuns ==
    {[sim |-> c.sim, points |-> <<c.p>>, r |-> long_press(c.p[1], c.p[2], c.sim, c.e)] :
        c \in ClickRequests}

TapRuns ==
    {[sim |-> c.sim, points |-> <<c.p>>, r |-> tap(c.p[1], c.p[2], c.sim, c.e)] :
        c \in ClickRequests}

SwipeRuns ==
    {[sim |-> c.sim, points |-> <<c.p1, c.p2>>, r |-> swipe(c.p1, c.p2, c.sim, c.e)] :
        c \in SwipeRequests}

TapElementRuns ==
    {[sim |-> c.sim, q |-> c.q, out |-> c.out,
      elements |-> get_accessibility_elements(c.out),
      found |-> find_element(c.q, c.out),
      r |-> tap_element(c.q, c.sim, c.out)] :
        c \in ElementRequests}

LongPress ==
    /\ counts.ops < MaxOps
    /\ \E c \in LongPressRuns :
            /\ Return("long_press", c.sim, c.points, c.r)
            /\ UNCHANGED treeVars

Tap ==
    /\ counts.ops < MaxOps
    /\ \E c \in TapRuns :
            /\ Return("tap", c.sim, c.points, c.r)
            /\ UNCHANGED treeVars

Swipe ==
    /\ counts.ops < MaxOps
    /\ \E c \in SwipeRuns :
            /\ Return("swipe", c.sim, c.points, c.r)
            /\ UNCHANGED treeVars

TapElement ==
    /\ counts.ops < MaxOps
    /\ \E c \in TapElementRuns :
            /\ Return("tap_element", c.sim, <<>>, c.r)
            /\ stdout' = c.out
            /\ query' = c.q
            /\ elements' = IF c.elements.ok THEN c.elements.val ELSE <<>>
            /\ found' = c.found

NextInput == LongPress \/ Tap \/ Swipe \/ TapElement

SpecInput == InitInput /\ [][NextInput]_vars

-----------------------------------------------------------------------------
(* Claims about the coordinate mapper (checked under SpecMapper)           *)

\* the mapper ran with a window geometry and a decoded image
Mapped == op = "sim_to_screen_coords" /\ window.ok /\ shot.ok

PositiveFrame == shot.val[1] > 0 /\ shot.val[2] > 0

\* the scale the mapper computes in the current state
CurrentScale ==
    aspect_scale(F(window.val[3]), FSub(F(window.val[4]), F(toolbar_h)),
                 F(shot.val[1]), F(shot.val[2]))

\* C1: with a captured frame of width 0 or height 0 the mapper fails with
\* InvalidFrameSize and returns no coordinate pair.
C1_ZeroFrameFails ==
    (Mapped /\ (shot.val[1] = 0 \/ shot.val[2] = 0))
        => (~screen_pt.ok /\ screen_pt.err = "InvalidFrameSize")

\* C2: whenever the computed aspect-fit scale is <= 0 the mapper fails with
\* DegenerateGeometry instead of returning a screen point.  (A frame with a
\* zero side is C1's case; here the scale is a finite number.)
C2_NonPositiveScaleFails ==
    (Mapped /\ PositiveFrame /\ FLe(CurrentScale, F(0)))
        => (~screen_pt.ok /\ screen_pt.err = "DegenerateGeometry")

\* C3: for a window of positive width and height and a frame of positive
\* width and height, device point (0,0) maps to (sx, sy) with
\* x <= sx <= x + width and y + top_inset <= sy <= y + height.
C3_OriginInsideContent ==
    (/\ Mapped
     /\ PositiveFrame
     /\ window.val[3] > 0
     /\ window.val[4] > 0
     /\ sim_pt = <<0, 0>>)
        => /\ screen_pt.ok
           /\ window.val[1] <= screen_pt.val[1]
           /\ screen_pt.val[1] <= window.val[1] + window.val[3]
           /\ window.val[2] + toolbar_h <= screen_pt.val[2]
           /\ screen_pt.val[2] <= window.val[2] + window.val[4]

\* The aspect-fit reference in closed form over the integers: with the one
\* scale S/D = min(width/frame_w, (height - inset)/frame_h),
\*   screen.x = x + (width - frame_w*S/D)/2 + px*S/D
\*   screen.y = y + inset + (content_h - frame_h*S/D)/2 + py*S/D
\* each brought over the denominator 2*D and truncated toward zero.
AspectFitRef(px, py, g, f) ==
    LET ch == g[4] - toolbar_h
        byWidth == g[3] * f[2] <= ch * f[1]
        S == IF byWidth THEN g[3] ELSE ch
        D == IF byWidth THEN f[1] ELSE f[2]
        xn == 2 * D * g[1] + D * g[3] - f[1] * S + 2 * px * S
        yn == 2 * D * g[2] + 2 * D * toolbar_h + D * ch - f[2] * S + 2 * py * S
    IN  <<TruncDiv(xn, 2 * D), TruncDiv(yn, 2 * D)>>

-----------------------------------------------------------------------------
(* Claims about the dump parser and the locator (checked under SpecTree)   *)

\* the script's output was parsed by ui_dump or find_element
Parsed == op \in {"ui_dump", "find_element"} /\ stdout.ok

InputLines == lines(stdout.val)

FieldCount(l) == Len(split(l, "|"))

\* the line pushes an element
Contributes(l) == parse_line(l) # <<>>

\* an optionally signed run of digits, blanks around it allowed
NumericText(s) ==
    LET t == trim(s)
        body == IF Len(t) > 0 /\ t[1] \in {"-", "+"} THEN Tail(t) ELSE t
    IN  Len(body) > 0 /\ \A i \in DOMAIN body : IsDigit(body[i])

\* the field splits on c into exactly 2 components, both numeric
TwoNumeric(field, c) ==
    LET comps == split(field, c)
    IN  Len(comps) = 2 /\ \A i \in DOMAIN comps : NumericText(comps[i])

WellFormedLine(l) ==
    /\ FieldCount(l) = 7
    /\ TwoNumeric(split(l, "|")[6], ",")
    /\ TwoNumeric(split(l, "|")[7], "x")

\* C5: a dump of N well-formed and M malformed lines (wrong field count, or
\* non-numeric position or size) yields exactly N elements, one per
\* well-formed line, in the order of those lines.
C5_OneElementPerWellFormedLine ==
    Parsed =>
        LET wf == SelectSeq(InputLines, WellFormedLine)
        IN  /\ Len(elements) = Len(wf)
            /\ \A i \in DOMAIN wf : parse_line(wf[i]) = <<elements[i]>>

\* C6: a line contributes an element only if splitting it on "|" yields
\* exactly 7 fields.
C6_ExactlySevenFields ==
    Parsed =>
        \A i \in DOMAIN InputLines :
            Contributes(InputLines[i]) => FieldCount(InputLines[i]) = 7

\* C7: a line contributes an element only if its position field split on
\* "," and its size field split on "x" each yield exactly 2 components, all
\* numeric.
C7_TwoNumericComponents ==
    Parsed =>
        \A i \in DOMAIN InputLines :
            Contributes(InputLines[i]) =>
                /\ TwoNumeric(split(InputLines[i], "|")[6], ",")
                /\ TwoNumeric(split(InputLines[i], "|")[7], "x")

\* C8: in every parsed element a title, value or description whose input
\* text is "missing value" is stored empty, any other text is stored
\* unchanged, and no stored field is the sentinel.
C8_SentinelNormalised ==
    Parsed =>
        LET src == SelectSeq(InputLines, Contributes)
            Stored(t) == IF t = missing_value THEN <<>> ELSE t
        IN  /\ Len(elements) = Len(src)
            /\ \A i \in DOMAIN src :
                 LET parts == split(src[i], "|")
                     e == elements[i]
                 IN  /\ e.title = Stored(parts[3])
                     /\ e.value = Stored(parts[4])
                     /\ e.description = Stored(parts[5])
                     /\ missing_value \notin {e.title, e.value, e.description}

\* a line with sentinel title and description, then a line whose title only
\* starts with the sentinel
C8_Witness ==
    /\ Parsed
    /\ stdout.val = JoinLines(<<L_value, L_near>>)
    /\ Len(elements) = 2
    /\ elements[1].title = <<>>
    /\ elements[1].value = <<"o", "k">>
    /\ elements[2].title = missing_value \o <<"s">>

Searched == op = "find_element" /\ stdout.ok

\* the element has positive area and one of its three texts contains the
\* query (letter case ignored, as the locator matches)
EligibleMatch(e) ==
    /\ e.width > 0
    /\ e.height > 0
    /\ \E f \in {e.title, e.value, e.description} :
           contains(to_lowercase(f), to_lowercase(query))

\* C9: find_element returns a point iff some element has width > 0 and
\* height > 0 and a title, value or description containing the query;
\* otherwise it returns None, not an error.
C9_PointIffEligibleMatch ==
    Searched =>
        /\ found.ok
        /\ found.val.some <=> \E i \in DOMAIN elements : EligibleMatch(elements[i])

\* the only matching element has zero width: None
C9_Witness ==
    /\ Searched
    /\ stdout.val = JoinLines(<<L_zero_w, L_other>>)
    /\ query = <<"o", "k">>
    /\ Len(elements) = 2
    /\ found = Ok(None)

\* C10: the point returned is that of the first eligible matching element in
\* input order, (x + width/2, y + height/2) with floor division.
C10_FirstEligibleCentre ==
    (Searched /\ \E i \in DOMAIN elements : EligibleMatch(elements[i])) =>
        LET first == CHOOSE i \in DOMAIN elements :
                        /\ EligibleMatch(elements[i])
                        /\ \A j \in 1 .. (i - 1) : ~EligibleMatch(elements[j])
            e == elements[first]
        IN  found = Ok(Some(<<e.x + e.width \div 2, e.y + e.height \div 2>>))

\* a matching element of zero width comes first and is skipped; the centre
\* of the 5x9 element at (-3, 7) is (-1, 11)
C10_Witness ==
    /\ Searched
    /\ stdout.val = JoinLines(<<L_zero_w, L_value>>)
    /\ query = <<"O", "K">>
    /\ found = Ok(Some(<<-1, 11>>))

\* the upper-case form of an ASCII letter
UpperChar(c) ==
    IF \E i \in DOMAIN LowerCase : LowerCase[i] = c
    THEN UpperCase[CHOOSE i \in DOMAIN LowerCase : LowerCase[i] = c]
    ELSE c

\* every text that differs from q only in letter case
CaseVariants(q) ==
    {v \in [DOMAIN q -> {LowerChar(q[i]) : i \in DOMAIN q}
                           \cup {UpperChar(q[i]) : i \in DOMAIN q}] :
        \A i \in DOMAIN q : v[i] \in {LowerChar(q[i]), UpperChar(q[i])}}

\* the elements with their three texts in upper case
UpperCased(es) ==
    [i \in DOMAIN es |->
        [es[i] EXCEPT !.title = [j \in DOMAIN @ |-> UpperChar(@[j])],
                      !.value = [j \in DOMAIN @ |-> UpperChar(@[j])],
                      !.description = [j \in DOMAIN @ |-> UpperChar(@[j])]]]

\* C11: find_element is case-insensitive: every query that differs from the
\* one given only in letter case gives the same result on the same dump,
\* and so does the same query on the elements with their texts upper-cased.
C11_CaseInsensitive ==
    Searched =>
        /\ \A v \in CaseVariants(query) : find_element(v, stdout) = found
        /\ find_loop(UpperCased(elements), to_lowercase(query), 1) = found.val

\* the query OK finds the element titled Ok
C11_Witness ==
    /\ Searched
    /\ stdout.val = JoinLines(<<L_other, L_title>>)
    /\ query = <<"O", "K">>
    /\ elements[2].title = <<"O", "k">>
    /\ found = Ok(Some(<<3, 5>>))

-----------------------------------------------------------------------------
(* Claims about device resolution (checked under SpecUdid)                 *)

Resolved == op = "get_simulator_udid"

\* the devices of the listing, whatever their runtime
Listed ==
    IF ~listing.val.object THEN {}
    ELSE UNION {{rt[i] : i \in DOMAIN rt} :
                   rt \in {listing.val.devices[r] : r \in DOMAIN listing.val.devices}}

\* C14: without a name the resolution succeeds with "booted" and makes no
\* external call; with a name, a returned identifier is that of a listed
\* device of that name, and when no listed device has the name the result is
\* the not-found error carrying the name.
C14_UdidResolution ==
    Resolved =>
        /\ simulator = <<>> => (outcome = Ok("booted") /\ trace = <<>>)
        /\ (simulator # <<>> /\ outcome.ok) =>
               /\ listing.ok
               /\ \E d \in Listed : d.name = simulator /\ d.udid = <<outcome.val>>
        /\ (simulator # <<>> /\ listing.ok
                /\ ~\E d \in Listed : d.name = simulator) =>
               /\ ~outcome.ok
               /\ outcome.err = "Simulator not found"
               /\ outcome.name = simulator[1]

\* B is asked for and is listed after a device named A
C14_Witness ==
    /\ Resolved
    /\ simulator = <<"B">>
    /\ listing = Ok([object |-> TRUE,
                     devices |-> <<<<[name |-> <<"A">>, udid |-> <<"u1">>]>>,
                                   <<[name |-> <<"B">>, udid |-> <<"u2">>]>>>>])
    /\ outcome = Ok("u2")
    /\ Len(trace) = 1

-----------------------------------------------------------------------------
(* Claims about the window geometry resolver (checked under SpecGeometry)  *)

GeometryResolved == op = "get_simulator_window_geometry"

\* the comma-separated fields of the record the script printed
RecordFields == split(trim(geom_out.val), ",")

\* the record is exactly 4 fields, each one a number
FourNumericFields ==
    /\ Len(RecordFields) = 4
    /\ \A i \in DOMAIN RecordFields : parse_f64(trim(RecordFields[i])) # <<>>

\* C13: the resolver returns a geometry only when the record is exactly 4
\* comma-separated numeric fields, and then returns them in the order x, y,
\* width, height; for any other output it fails.
C13_FourNumericFieldsOnly ==
    GeometryResolved =>
        IF geom_out.ok /\ FourNumericFields
        THEN outcome = Ok([i \in 1 .. 4 |-> parse_f64(trim(RecordFields[i]))[1]])
        ELSE ~outcome.ok

-----------------------------------------------------------------------------
(* Claims about the input operations                                       *)

PointerOps == {"tap", "long_press", "swipe"}

MappingStages == {"udid", "geometry", "capture", "decode"}

\* the calls of the device resolution, the geometry query, the frame capture
\* or the image decode that failed
FailedStages == {i \in DOMAIN trace : trace[i].stage \in MappingStages /\ ~trace[i].out.ok}

\* C12: in tap, long_press and swipe, a failure of the device resolution, the
\* window geometry query, the frame capture or the image decode is the last
\* call the operation makes (nothing is retried, nothing follows), the
\* operation returns that error, and no input event is dispatched - for swipe
\* not even for the first point when the second mapping fails.
C12_FailureStopsOperation ==
    op \in PointerOps =>
        \A i \in FailedStages :
            /\ i = Len(trace)
            /\ ~outcome.ok
            /\ outcome = trace[i].out
            /\ dispatched = <<>>

\* a swipe whose first point was mapped and whose second mapping failed
C12_Witness ==
    /\ op = "swipe"
    /\ Calls(trace, "mapping") = 2
    /\ FailedStages # {}
    /\ ~outcome.ok
    /\ dispatched = <<>>

\* the mappings started by the last operation, as positions in its trace
Mappings == {i \in DOMAIN trace : trace[i].stage = "mapping"}

\* the calls made on behalf of the mapping started at i
Segment(i) == {j \in DOMAIN trace : j > i /\ \A k \in (i + 1) .. j : k \notin Mappings}

StageIn(i, stage) == {j \in Segment(i) : trace[j].stage = stage}

\* the mapping started at i got as far as its frame capture
ReachesCapture(i) ==
    /\ \A j \in StageIn(i, "geometry") : trace[j].out.ok
    /\ \A j \in StageIn(i, "udid") : trace[j].out.ok

\* the point computed from the geometry and the frame the mapping at i got
OwnPoint(i) ==
    LET g == trace[CHOOSE j \in StageIn(i, "geometry") : TRUE].out
        f == trace[CHOOSE j \in StageIn(i, "decode") : TRUE].out
    IN  map_point(trace[i].out.val[1], trace[i].out.val[2], g.val, f.val)

\* the positions of the mappings in the order they were started
MappingAt(k) == CHOOSE i \in Mappings : Cardinality({j \in Mappings : j <= i}) = k

\* the points the dispatched events were sent to
EventPoints ==
    IF dispatched = <<>> THEN <<>>
    ELSE IF dispatched[1].kind = "drag"
         THEN <<dispatched[1].from, dispatched[1].to>>
         ELSE [k \in DOMAIN dispatched |-> dispatched[k].to]

\* C15 as stated: over any sequence of operations the number of geometry
\* queries and the number of frame captures each equal the number of
\* mappings started.
C15_QueriesAndCapturesEqualMappings ==
    /\ counts.geometry = counts.mappings
    /\ counts.capture = counts.mappings

\* C15 amended: every mapping started performs its own geometry query, and
\* its own frame capture unless that query or the device resolution of the
\* capture failed; the points sent are computed from the geometry and frame
\* of their own mapping; over any sequence of operations the geometry queries
\* number the mappings started, and the captures number the mappings started
\* less those that ended before their capture.
C15_FreshGeometryAndFrame ==
    /\ counts.geometry = counts.mappings
    /\ counts.capture + counts.cut_short = counts.mappings
    /\ \A i \in Mappings :
        /\ Cardinality(StageIn(i, "geometry")) = 1
        /\ Cardinality(StageIn(i, "capture")) = IF ReachesCapture(i) THEN 1 ELSE 0
    /\ (op \in PointerOps /\ dispatched # <<>>) =>
            EventPoints = [k \in 1 .. Cardinality(Mappings) |-> OwnPoint(MappingAt(k))]

\* after an operation one of whose mappings ended before its capture, a swipe
\* maps its two points with two different geometries and sends its events
C15_Witness ==
    /\ op = "swipe"
    /\ counts.ops = 2
    /\ counts.cut_short > 0
    /\ dispatched # <<>>
    /\ Cardinality(Mappings) = 2
    /\ \E i \in StageIn(MappingAt(1), "geometry"), j \in StageIn(MappingAt(2), "geometry") :
          trace[i].out.val # trace[j].out.val
    /\ Calls(trace, "capture") = 2

\* C16: tap_element dispatches a click only after find_element returned a
\* point, at exactly that point, and with no coordinate mapping (no geometry
\* query, no frame capture); when find_element returns None it returns the
\* 'element not found' error and dispatches no click.
C16_TapElementClicksFoundPoint ==
    op = "tap_element" =>
        /\ dispatched # <<>> =>
              /\ found.ok /\ found.val.some
              /\ dispatched = <<Click(found.val.val)>>
        /\ \A i \in DOMAIN trace :
              trace[i].stage = "dispatch" =>
                  \E j \in 1 .. (i - 1) : trace[j].stage = "scrape"
        /\ (found.ok /\ found.val.some) =>
              /\ outcome.ok
              /\ dispatched = <<Click(found.val.val)>>
        /\ \A i \in DOMAIN trace :
              trace[i].stage \notin {"mapping", "udid", "geometry", "capture", "decode"}
        /\ (found.ok /\ ~found.val.some) =>
              /\ ~outcome.ok
              /\ outcome.err = "Element not found"
              /\ outcome.query = query
              /\ dispatched = <<>>

\* tap_element found an element away from the origin and clicked its centre
C16_Witness ==
    /\ op = "tap_element"
    /\ found.ok
    /\ found.val.some
    /\ found.val.val # <<0, 0>>
    /\ dispatched = <<Click(found.val.val)>>

=============================================================================
